---- MODULE Spec2Model ----
(***************************************************************************)
(* Real-time collaborative drawing canvas: the room-scoped operation log   *)
(* (server/drawing-state.js), the room store (server/rooms.js), the        *)
(* socket.io connection handlers (server entry file) and the client's      *)
(* local operation list (client/canvas.js, client/websocket.js, main.js).  *)
(*                                                                         *)
(* Node runs every handler to completion, so each handler is one atomic    *)
(* action.  Messages travel on one FIFO channel per connection and         *)
(* direction (socket.io over one websocket).                               *)
(***************************************************************************)
EXTENDS Integers, Sequences, FiniteSets, TLC

\* ------------------------------------------------------------------ bounds
\* Highest value currentOperationId may reach in a room (guard of the draw handler).
MaxId == 3
\* Requests a client may have in flight to the server.
MaxPending == 1
\* Events still in flight to a client when the server emits to it again.
MaxInbox == 0
\* join-room events the server processes (colorIndex is never reset).
MaxJoins == 2
\* Events in flight to a client when the server handles a queued request (SpecRace).
RaceInbox == 1
\* join-room events the server processes in SpecColors: one turn of the palette and one more.
ColorJoins == 13
\* Requests a client may have in flight to the server in SpecOrder.
OrderPending == 2
\* join-room events the server processes in SpecMembers: two connections in one
\* room and a switch of one of them.
MemberJoins == 3

\* ------------------------------------------------------------- universes
Conns == {"c1", "c2"}
RoomIds == {"default", "r2"}
\* the roomId field of a join-room request; "" is a request without roomId
JoinTargets == RoomIds \cup {""}
NoRoom == "null"
Null == <<>>
NumColors == 12
\* the log of the undo-conflict scenario: [Op1, Op2, Op3, Op4]
RaceLen == 4

VARIABLES
  rooms,       \* RoomManager.rooms: roomId -> DrawingState (a Map: its domain is the keys)
  colorIndex,  \* module-level colorIndex of the server
  sock,        \* per connection: socket status and the closure's currentRoom / userInfo,
               \* and (history) left: the log the connection left behind, see Disconnect
  adapter,     \* socket.io rooms: roomId -> set of sockets joined to it
  timers,      \* connections whose disconnect handler's setTimeout has not fired yet
  toServer,    \* per connection: requests emitted by the client, not yet handled
  toClient,    \* per connection: events emitted by the server, not yet received
  canvas,      \* per connection: CanvasManager.operations and the displayed user list
  last,        \* history: the step taken last and, for a handler, what its state call returned
  hist         \* history per room, see NewHist

vars == <<rooms, colorIndex, sock, adapter, timers, toServer, toClient, canvas, last, hist>>

\* ------------------------------------------------------------ sequences
Last(s) == s[Len(s)]
Front(s) == SubSeq(s, 1, Len(s) - 1)
RECURSIVE Without(_, _)
\* s without the entries whose userId is u, order kept (Map.delete)
Without(s, u) ==
  IF s = <<>> THEN <<>>
  ELSE IF Head(s).userId = u THEN Without(Tail(s), u)
  ELSE <<Head(s)>> \o Without(Tail(s), u)

\* --------------------------------------------------------- DrawingState
\* a DrawingState whose counter starts at 1
DrawingState_StartsAtOne == [operations |-> <<>>, currentOperationId |-> 1, users |-> <<>>]

\* new DrawingState(roomId)
DrawingState == [operations |-> <<>>, currentOperationId |-> 0, users |-> <<>>]

\* addOperation with `id: this.currentOperationId` (the ++ forgotten)
addOperation_NoIncrement(state, operation) ==
  LET op == [id |-> state.currentOperationId, userId |-> operation.userId,
             data |-> operation.data]
  IN [ret |-> op, state |-> [state EXCEPT !.operations = Append(state.operations, op)]]

\* addOperation with `id: ++this.currentOperationId`
addOperation_PreIncrement(state, operation) ==
  LET op == [id |-> state.currentOperationId + 1, userId |-> operation.userId,
             data |-> operation.data]
  IN [ret |-> op,
      state |-> [state EXCEPT !.currentOperationId = state.currentOperationId + 1,
                              !.operations = Append(state.operations, op)]]

\* addOperation with operations.unshift(op)
addOperation_Unshift(state, operation) ==
  LET op == [id |-> state.currentOperationId, userId |-> operation.userId,
             data |-> operation.data]
  IN [ret |-> op,
      state |-> [state EXCEPT !.currentOperationId = state.currentOperationId + 1,
                              !.operations = <<op>> \o state.operations]]

\* addOperation(operation): the finalized record and the state after the push
addOperation(state, operation) ==
  LET op == [id |-> state.currentOperationId, userId |-> operation.userId,
             data |-> operation.data]
  IN [ret |-> op,
      state |-> [state EXCEPT !.currentOperationId = state.currentOperationId + 1,
                              !.operations = Append(state.operations, op)]]

\* getAllOperations that returns a new, empty array
getAllOperations_None(state) == <<>>

getAllOperations(state) == state.operations

\* undo with operations.shift()
undo_Shift(state) ==
  IF Len(state.operations) = 0
  THEN [ret |-> Null, state |-> state]
  ELSE [ret |-> <<Head(state.operations)>>,
        state |-> [state EXCEPT !.operations = Tail(state.operations)]]

\* undo that pops and also rolls the counter back (this.currentOperationId--)
undo_Rollback(state) ==
  IF Len(state.operations) = 0
  THEN [ret |-> Null, state |-> state]
  ELSE [ret |-> <<Last(state.operations)>>,
        state |-> [state EXCEPT !.operations = Front(state.operations),
                                !.currentOperationId = state.currentOperationId - 1]]

\* undo that pops but returns operations[0]
undo_ReturnsFirst(state) ==
  IF Len(state.operations) = 0
  THEN [ret |-> Null, state |-> state]
  ELSE [ret |-> <<Head(state.operations)>>,
        state |-> [state EXCEPT !.operations = Front(state.operations)]]

\* undo that answers an empty history with a placeholder operation, not null
undo_Placeholder(state) ==
  IF Len(state.operations) = 0
  THEN [ret |-> <<[id |-> -1, userId |-> "", data |-> 0]>>, state |-> state]
  ELSE [ret |-> <<Last(state.operations)>>,
        state |-> [state EXCEPT !.operations = Front(state.operations)]]

\* undo(): null on an empty history, else the popped operation
undo(state) ==
  IF Len(state.operations) = 0
  THEN [ret |-> Null, state |-> state]
  ELSE [ret |-> <<Last(state.operations)>>,
        state |-> [state EXCEPT !.operations = Front(state.operations)]]

\* addUser(userId, userInfo): Map.set keeps the position of an existing key
addUser(state, userId, userInfo) ==
  IF \E i \in 1..Len(state.users) : state.users[i].userId = userId
  THEN [state EXCEPT !.users =
          [i \in 1..Len(state.users) |->
             IF state.users[i].userId = userId THEN userInfo ELSE state.users[i]]]
  ELSE [state EXCEPT !.users = Append(state.users, userInfo)]

\* removeUser that leaves the entry in the Map
removeUser_Keeps(state, userId) == state

removeUser(state, userId) == [state EXCEPT !.users = Without(state.users, userId)]

getUsers(state) == state.users

\* users.size
UsersSize(state) == Len(state.users)

\* clear that empties the history and keeps the counter
clear_KeepsCounter(state) == [state EXCEPT !.operations = <<>>]

\* clear that resets the counter and keeps the operations
clear_KeepsLog(state) == [state EXCEPT !.currentOperationId = 0]

clear(state) == [state EXCEPT !.operations = <<>>, !.currentOperationId = 0]

\* ---------------------------------------------------------- RoomManager
has(rs, roomId) == roomId \in DOMAIN rs

\* a Map with key roomId set to state
MapSet(rs, roomId, state) ==
  [k \in DOMAIN rs \cup {roomId} |-> IF k = roomId THEN state ELSE rs[k]]

MapDelete(rs, keys) == [k \in DOMAIN rs \ keys |-> rs[k]]

\* getOrCreateRoom without the has() test: a new DrawingState every time
getOrCreateRoom_Fresh(rs, roomId) == MapSet(rs, roomId, DrawingState)

\* getOrCreateRoom(roomId): the store with the room in it
getOrCreateRoom(rs, roomId) ==
  IF ~has(rs, roomId) THEN MapSet(rs, roomId, DrawingState) ELSE rs

\* removeRoom that never deletes
removeRoom_Never(rs, roomId) == [ret |-> FALSE, rooms |-> rs]

\* removeRoom without the users.size === 0 test
removeRoom_Unconditional(rs, roomId) ==
  IF has(rs, roomId) THEN [ret |-> TRUE, rooms |-> MapDelete(rs, {roomId})]
  ELSE [ret |-> FALSE, rooms |-> rs]

removeRoom(rs, roomId) ==
  IF has(rs, roomId) /\ UsersSize(rs[roomId]) = 0
  THEN [ret |-> TRUE, rooms |-> MapDelete(rs, {roomId})]
  ELSE [ret |-> FALSE, rooms |-> rs]

\* cleanupEmptyRooms without the users.size === 0 test
cleanupEmptyRooms_All(rs) ==
  [ret |-> Cardinality(DOMAIN rs), rooms |-> MapDelete(rs, DOMAIN rs)]

\* cleanupEmptyRooms that returns this.rooms.size taken before the deletions
cleanupEmptyRooms_CountsRooms(rs) ==
  LET emptyRooms == {k \in DOMAIN rs : UsersSize(rs[k]) = 0}
  IN [ret |-> Cardinality(DOMAIN rs), rooms |-> MapDelete(rs, emptyRooms)]

\* cleanupEmptyRooms that counts the empty rooms and deletes none
cleanupEmptyRooms_None(rs) ==
  LET emptyRooms == {k \in DOMAIN rs : UsersSize(rs[k]) = 0}
  IN [ret |-> Cardinality(emptyRooms), rooms |-> rs]

cleanupEmptyRooms(rs) ==
  LET emptyRooms == {k \in DOMAIN rs : UsersSize(rs[k]) = 0}
  IN [ret |-> Cardinality(emptyRooms), rooms |-> MapDelete(rs, emptyRooms)]

\* ------------------------------------------------------------ socket.io
\* an emit that overtakes what is already queued
Emit_Overtakes(q, recipients, msg) ==
  [d \in Conns |-> IF d \in recipients THEN <<msg>> \o q[d] ELSE q[d]]

\* emit msg to every connection of recipients, behind what is already queued
Emit(q, recipients, msg) ==
  [d \in Conns |-> IF d \in recipients THEN Append(q[d], msg) ELSE q[d]]

\* socket.to(roomId) taken for io.to(roomId): the sender is not excepted
SocketTo_All(ad, roomId, c) == ad[roomId]

\* socket.to(roomId): the sockets joined to roomId, the sender excepted
SocketTo(ad, roomId, c) == ad[roomId] \ {c}

\* io.emit: every socket of every room
IoTo_Everyone(ad, roomId) == UNION {ad[r] : r \in DOMAIN ad}

\* io.to(roomId) naming a room nobody is joined to
IoTo_Nobody(ad, roomId) == {}

\* io.to(roomId): the sockets joined to roomId
IoTo(ad, roomId) == ad[roomId]

\* the channel of c once the server has taken the request at its head
Consumed(c) == [toServer EXCEPT ![c] = Tail(toServer[c])]

\* What has happened to a room since getOrCreateRoom created it:
\*   issued      the ids addOperation has returned
\*   sinceClear  those returned since the last clear()
\*   undone      undo() has popped an operation since the last clear()
\*   cleared     clear() has run and addOperation has not run since
NewHist == [issued |-> {}, sinceClear |-> {}, undone |-> FALSE, cleared |-> FALSE]

\* history of a room that still exists, or of one just created
HistOf(h, roomId) == IF roomId \in DOMAIN h THEN h[roomId] ELSE NewHist

\* the history follows the store: entries of removed rooms go, new rooms start empty
HistFor(h, rs) == [k \in DOMAIN rs |-> HistOf(h, k)]

\* new CanvasManager(canvas): no operation, and an empty user list on the page
NewCanvas == [operations |-> <<>>, users |-> <<>>]

\* ------------------------------------------------------------- initially
Init ==
  /\ rooms = [k \in {} |-> DrawingState]
  /\ colorIndex = 0
  /\ sock = [c \in Conns |-> [status |-> "idle", currentRoom |-> NoRoom, left |-> Null]]
  /\ adapter = [r \in RoomIds |-> {}]
  /\ timers = {}
  /\ toServer = [c \in Conns |-> <<>>]
  /\ toClient = [c \in Conns |-> <<>>]
  /\ canvas = [c \in Conns |-> NewCanvas]
  /\ last = [ev |-> "none", conn |-> NoRoom, room |-> NoRoom, ret |-> Null]
  /\ hist = HistFor(<<>>, rooms)

\* ------------------------------------------------------------ the clients
\* the transport's connection event: io.on('connection') runs with currentRoom = null
Connect(c) ==
  /\ sock[c].status = "idle"
  /\ sock' = [sock EXCEPT ![c].status = "open"]
  /\ last' = [ev |-> "connection", conn |-> NoRoom, room |-> NoRoom, ret |-> Null]
  /\ UNCHANGED <<rooms, colorIndex, adapter, timers, toServer, toClient, canvas, hist>>

\* join-room requests in flight
PendingJoins ==
  Cardinality(UNION {{<<c, i>> : i \in {j \in 1..Len(toServer[c]) :
                                          toServer[c][j].type = "join-room"}} : c \in Conns})

\* socket.emit on the client: the request joins the connection's channel; nothing
\* is added to the sender's own CanvasManager.operations (handleDrawEnd only sends)
SendRequest(c, req) ==
  /\ sock[c].status = "open"
  /\ Len(toServer[c]) < MaxPending
  /\ toServer' = [toServer EXCEPT ![c] = Append(toServer[c], req)]
  /\ last' = [ev |-> "emit", conn |-> NoRoom, room |-> NoRoom, ret |-> Null]
  /\ UNCHANGED <<rooms, colorIndex, sock, adapter, timers, toClient, canvas, hist>>

joinRoom(c, roomId) ==
  /\ colorIndex + PendingJoins < MaxJoins
  /\ SendRequest(c, [type |-> "join-room", roomId |-> roomId])

\* the stroke sent is of no account where sendDrawing is used: data is 0
sendDrawing(c) == SendRequest(c, [type |-> "draw", roomId |-> "", data |-> 0])

\* the number of the next stroke of connection c: one more than the highest
\* number among its strokes that are in flight or in a log, 0 without any
NextStroke(c) ==
  LET used == {toServer[c][i].data : i \in {k \in 1..Len(toServer[c]) :
                                               toServer[c][k].type = "draw"}}
                \cup UNION {{rooms[r].operations[i].data :
                               i \in {k \in 1..Len(rooms[r].operations) :
                                        rooms[r].operations[k].userId = c}} :
                            r \in DOMAIN rooms}
  IN IF used = {} THEN 0 ELSE (CHOOSE n \in used : \A m \in used : m <= n) + 1

\* sendDrawing where it matters which stroke is which: data numbers the strokes
\* of the connection in the order handleDrawEnd sends them
sendStroke(c) ==
  /\ sock[c].status = "open"
  /\ Len(toServer[c]) < OrderPending
  /\ NextStroke(c) < MaxId
  /\ toServer' = [toServer EXCEPT ![c] =
                    Append(@, [type |-> "draw", roomId |-> "", data |-> NextStroke(c)])]
  /\ last' = [ev |-> "emit", conn |-> NoRoom, room |-> NoRoom, ret |-> Null]
  /\ UNCHANGED <<rooms, colorIndex, sock, adapter, timers, toClient, canvas, hist>>

sendUndo(c) == SendRequest(c, [type |-> "undo", roomId |-> ""])

sendClear(c) == SendRequest(c, [type |-> "clear-canvas", roomId |-> ""])

sendCursorPosition(c) == SendRequest(c, [type |-> "cursor-move", roomId |-> ""])

\* CanvasManager
loadOperations(cv, operations) == [cv EXCEPT !.operations = operations]

CanvasAddOperation(cv, operation) == [cv EXCEPT !.operations = Append(cv.operations, operation)]

removeLastOperation(cv) ==
  IF Len(cv.operations) > 0 THEN [cv EXCEPT !.operations = Front(cv.operations)] ELSE cv

CanvasClear(cv) == [cv EXCEPT !.operations = <<>>]

updateUsersList(cv, users) == [cv EXCEPT !.users = users]

\* the callbacks of setupWebSocketCallbacks, by event type
OnEvent(cv, msg) ==
  CASE msg.type = "init-state" -> updateUsersList(loadOperations(cv, msg.operations), msg.users)
    [] msg.type = "draw" -> CanvasAddOperation(cv, msg.operation)
    [] msg.type = "undo" -> removeLastOperation(cv)
    [] msg.type = "clear-canvas" -> CanvasClear(cv)
    [] msg.type = "users-update" -> updateUsersList(cv, msg.users)
    [] OTHER -> cv

\* the client receives the next event of its channel
Deliver(c) ==
  /\ sock[c].status = "open"
  /\ toClient[c] # <<>>
  /\ canvas' = [canvas EXCEPT ![c] = OnEvent(canvas[c], Head(toClient[c]))]
  /\ toClient' = [toClient EXCEPT ![c] = Tail(toClient[c])]
  /\ last' = [ev |-> "receive", conn |-> NoRoom, room |-> NoRoom, ret |-> Null]
  /\ UNCHANGED <<rooms, colorIndex, sock, adapter, timers, toServer, hist>>

\* ------------------------------------------------------------- the server
\* Each handler is written once, as On...(c, ...): everything it does to the server,
\* the socket.io rooms and the clients' channels.  An event reaches it either straight
\* from the client (the request's time in flight is of no account) or from the head of
\* the connection's request channel.
Called(ev, c, roomId, ret) == [ev |-> ev, conn |-> c, room |-> roomId, ret |-> ret]

\* a handler that answers at its guard with an error event to the sender
Ignored_Surfaces(ev, c) ==
  /\ last' = [ev |-> ev, conn |-> c, room |-> NoRoom, ret |-> Null]
  /\ toClient' = [toClient EXCEPT ![c] = Append(@, [type |-> "error"])]
  /\ UNCHANGED <<rooms, colorIndex, sock, adapter, timers, canvas, hist>>

\* a handler that returns at its guard: nothing changes
Ignored(ev, c) ==
  /\ last' = Called(ev, c, NoRoom, Null)
  /\ UNCHANGED <<rooms, colorIndex, sock, adapter, timers, toClient, canvas, hist>>

\* a palette that stops at its last entry
UserColor_Clamped(index) == IF index < NumColors THEN index ELSE NumColors - 1

\* USER_COLORS[colorIndex % USER_COLORS.length], as the palette position
UserColor(index) == index % NumColors

\* socket.on('join-room')
OnJoinRoom(c, data) ==
  LET roomId == IF data.roomId = "" THEN "default" ELSE data.roomId
      currentRoom == sock[c].currentRoom
      leaving == currentRoom # NoRoom
      \* socket.leave(currentRoom)
      ad1 == IF leaving THEN [adapter EXCEPT ![currentRoom] = @ \ {c}] ELSE adapter
      oldRoom == leaving /\ has(rooms, currentRoom)
      rs1 == IF oldRoom
             THEN [rooms EXCEPT ![currentRoom] = removeUser(rooms[currentRoom], c)]
             ELSE rooms
      q1 == IF oldRoom
            THEN Emit(toClient, SocketTo(ad1, currentRoom, c), [type |-> "user-left", userId |-> c])
            ELSE toClient
      \* socket.join(roomId)
      ad2 == [ad1 EXCEPT ![roomId] = @ \cup {c}]
      rs2 == getOrCreateRoom(rs1, roomId)
      userInfo == [userId |-> c, color |-> UserColor(colorIndex)]
      rs3 == [rs2 EXCEPT ![roomId] = addUser(rs2[roomId], c, userInfo)]
      q2 == Emit(q1, {c}, [type |-> "init-state", userId |-> c, userInfo |-> userInfo,
                           operations |-> getAllOperations(rs3[roomId]),
                           users |-> getUsers(rs3[roomId])])
      q3 == Emit(q2, SocketTo(ad2, roomId, c), [type |-> "user-joined", userInfo |-> userInfo])
      q4 == Emit(q3, IoTo(ad2, roomId), [type |-> "users-update", users |-> getUsers(rs3[roomId])])
  IN /\ rooms' = rs3
     /\ adapter' = ad2
     /\ colorIndex' = colorIndex + 1
     /\ sock' = [d \in Conns |->
                  IF d = c THEN [sock[c] EXCEPT !.currentRoom = roomId]
                  ELSE IF sock[d].status = "closed" /\ sock[d].currentRoom = roomId
                  THEN [sock[d] EXCEPT !.left = Null]
                  ELSE sock[d]]
     /\ toClient' = q4
     /\ hist' = HistFor(hist, rs3)
     /\ last' = Called("join-room", c, roomId, Null)
     /\ UNCHANGED <<timers, canvas>>

\* socket.on('draw')
OnDraw(c, data) ==
  LET currentRoom == sock[c].currentRoom IN
  IF currentRoom = NoRoom \/ ~has(rooms, currentRoom)
  THEN Ignored("draw", c)
  ELSE LET added == addOperation(rooms[currentRoom], [userId |-> c, data |-> data])
           q1 == Emit(toClient, SocketTo(adapter, currentRoom, c),
                      [type |-> "draw", operation |-> added.ret])
       IN /\ rooms' = [rooms EXCEPT ![currentRoom] = added.state]
          /\ toClient' = q1
          /\ hist' = [hist EXCEPT ![currentRoom].issued = @ \cup {added.ret.id},
                                   ![currentRoom].sinceClear = @ \cup {added.ret.id},
                                   ![currentRoom].cleared = FALSE]
          /\ last' = Called("draw", c, currentRoom, <<added.ret>>)
          /\ UNCHANGED <<colorIndex, sock, adapter, timers, canvas>>

\* socket.on('cursor-move')
OnCursorMove(c) ==
  LET currentRoom == sock[c].currentRoom IN
  IF currentRoom = NoRoom
  THEN Ignored("cursor-move", c)
  ELSE LET q1 == Emit(toClient, SocketTo(adapter, currentRoom, c),
                      [type |-> "cursor-move", userId |-> c])
       IN /\ toClient' = q1
          /\ last' = Called("cursor-move", c, currentRoom, Null)
          /\ UNCHANGED <<rooms, colorIndex, sock, adapter, timers, canvas, hist>>

\* socket.on('undo')
OnUndo(c) ==
  LET currentRoom == sock[c].currentRoom IN
  IF currentRoom = NoRoom \/ ~has(rooms, currentRoom)
  THEN Ignored("undo", c)
  ELSE LET undone == undo(rooms[currentRoom])
           q1 == IF undone.ret # Null
                 THEN Emit(toClient, IoTo(adapter, currentRoom),
                           [type |-> "undo", operationId |-> undone.ret[1].id])
                 ELSE toClient
       IN /\ rooms' = [rooms EXCEPT ![currentRoom] = undone.state]
          /\ toClient' = q1
          /\ hist' = [hist EXCEPT ![currentRoom].undone = @ \/ undone.ret # Null]
          /\ last' = Called("undo", c, currentRoom, undone.ret)
          /\ UNCHANGED <<colorIndex, sock, adapter, timers, canvas>>

\* socket.on('clear-canvas')
OnClearCanvas(c) ==
  LET currentRoom == sock[c].currentRoom IN
  IF currentRoom = NoRoom \/ ~has(rooms, currentRoom)
  THEN Ignored("clear-canvas", c)
  ELSE LET q1 == Emit(toClient, IoTo(adapter, currentRoom), [type |-> "clear-canvas"])
       IN /\ rooms' = [rooms EXCEPT ![currentRoom] = clear(rooms[currentRoom])]
          /\ toClient' = q1
          /\ hist' = [hist EXCEPT ![currentRoom].cleared = TRUE,
                                   ![currentRoom].sinceClear = {},
                                   ![currentRoom].undone = FALSE]
          /\ last' = Called("clear-canvas", c, currentRoom, Null)
          /\ UNCHANGED <<colorIndex, sock, adapter, timers, canvas>>

\* The bounds of the model are guards of the steps below, never of the handlers.
\* the server runs a handler only while no client has more than n events in flight
Backlog(n) == \A d \in Conns : Len(toClient[d]) <= n

\* the room c draws in has handed out fewer than n ids since its last clear
IdsLeft(c, n) ==
  has(rooms, sock[c].currentRoom) => rooms[sock[c].currentRoom].currentOperationId < n

\* the event of connection c, with nothing queued before it, reaches the server
Arrives(c) == sock[c].status = "open" /\ toServer[c] = <<>> /\ Backlog(MaxInbox)

JoinRoom(c, roomId) ==
  /\ Arrives(c)
  /\ colorIndex < MaxJoins
  /\ OnJoinRoom(c, [type |-> "join-room", roomId |-> roomId])
  /\ UNCHANGED toServer

\* join-room as long as the server has processed fewer than n of them
JoinRoomWithin(c, roomId, n) ==
  /\ Arrives(c)
  /\ colorIndex < n
  /\ OnJoinRoom(c, [type |-> "join-room", roomId |-> roomId])
  /\ UNCHANGED toServer

Draw(c) == Arrives(c) /\ IdsLeft(c, MaxId) /\ OnDraw(c, 0) /\ UNCHANGED toServer

CursorMove(c) == Arrives(c) /\ OnCursorMove(c) /\ UNCHANGED toServer

Undo(c) == Arrives(c) /\ OnUndo(c) /\ UNCHANGED toServer

ClearCanvas(c) == Arrives(c) /\ OnClearCanvas(c) /\ UNCHANGED toServer

\* the server handles the request at the head of c's channel
Handle(c, maxId, maxInbox) ==
  /\ sock[c].status = "open"
  /\ toServer[c] # <<>>
  /\ Backlog(maxInbox)
  /\ toServer' = Consumed(c)
  /\ LET data == Head(toServer[c]) IN
     CASE data.type = "join-room" -> colorIndex < MaxJoins /\ OnJoinRoom(c, data)
       [] data.type = "draw" -> IdsLeft(c, maxId) /\ OnDraw(c, data.data)
       [] data.type = "cursor-move" -> OnCursorMove(c)
       [] data.type = "undo" -> OnUndo(c)
       [] data.type = "clear-canvas" -> OnClearCanvas(c)

\* socket.on('disconnect'): socket.io has taken the socket out of its rooms before
\* the handler runs; what was in flight on the connection is lost with it, and the
\* page that held the connection is gone.  History: when c was the last member,
\* left holds the log of the room at this moment, until somebody joins the room
\* again.
Disconnect(c) ==
  /\ sock[c].status = "open"
  /\ Backlog(MaxInbox)
  /\ LET currentRoom == sock[c].currentRoom
         ad1 == [r \in RoomIds |-> adapter[r] \ {c}]
         found == currentRoom # NoRoom /\ has(rooms, currentRoom)
         rs1 == IF found
                THEN [rooms EXCEPT ![currentRoom] = removeUser(rooms[currentRoom], c)]
                ELSE rooms
         q0 == [toClient EXCEPT ![c] = <<>>]
         q1 == IF found
               THEN Emit(q0, SocketTo(ad1, currentRoom, c), [type |-> "user-left", userId |-> c])
               ELSE q0
         q2 == IF found
               THEN Emit(q1, IoTo(ad1, currentRoom),
                         [type |-> "users-update", users |-> getUsers(rs1[currentRoom])])
               ELSE q1
         left == IF found /\ UsersSize(rs1[currentRoom]) = 0
                 THEN <<rs1[currentRoom].operations>>
                 ELSE Null
     IN /\ sock' = [sock EXCEPT ![c].status = "closed", ![c].left = left]
        /\ adapter' = ad1
        /\ rooms' = rs1
        /\ toClient' = q2
        /\ toServer' = [toServer EXCEPT ![c] = <<>>]
        /\ timers' = IF found THEN timers \cup {c} ELSE timers
        /\ canvas' = [canvas EXCEPT ![c] = NewCanvas]
        /\ last' = Called("disconnect", c, currentRoom, Null)
        /\ UNCHANGED <<colorIndex, hist>>

\* the disconnect handler's setTimeout callback: roomManager.removeRoom(currentRoom)
GraceTimer(c) ==
  /\ c \in timers
  /\ LET removed == removeRoom(rooms, sock[c].currentRoom)
     IN /\ rooms' = removed.rooms
        /\ hist' = HistFor(hist, removed.rooms)
        /\ timers' = timers \ {c}
        /\ last' = Called("removeRoom", c, sock[c].currentRoom, <<[removed |-> removed.ret]>>)
        /\ UNCHANGED <<colorIndex, sock, adapter, toServer, toClient, canvas>>

\* the setInterval callback: roomManager.cleanupEmptyRooms()
Sweep ==
  /\ LET swept == cleanupEmptyRooms(rooms)
     IN /\ rooms' = swept.rooms
        /\ hist' = HistFor(hist, swept.rooms)
        /\ last' = Called("cleanupEmptyRooms", NoRoom, NoRoom, <<[count |-> swept.ret]>>)
        /\ UNCHANGED <<colorIndex, sock, adapter, timers, toServer, toClient, canvas>>

\* ------------------------------------------------------- specifications
\* what the server does with the events of connections that join rooms of targets
Server(targets) ==
  \/ \E c \in Conns, roomId \in targets : JoinRoom(c, roomId)
  \/ \E c \in Conns : Draw(c)
  \/ \E c \in Conns : Undo(c)
  \/ \E c \in Conns : ClearCanvas(c)
  \/ \E c \in Conns : Disconnect(c)
  \/ \E c \in Conns : GraceTimer(c)
  \/ Sweep

\* every event of every connection, all rooms
Next ==
  \/ \E c \in Conns : Connect(c)
  \/ Server(JoinTargets)
  \/ \E c \in Conns : CursorMove(c)
  \/ \E c \in Conns : Deliver(c)

Spec == Init /\ [][Next]_vars

\* one room's log: joins, draws, undos, clears, departures and reclamation of "default"
NextLog ==
  \/ \E c \in Conns : Connect(c)
  \/ Server({"default"})
  \/ \E c \in Conns : Deliver(c)

SpecLog == Init /\ [][NextLog]_vars

\* SpecLog where a scheduled setTimeout callback eventually runs; nothing is
\* assumed of the clients, nor of the sweep
SpecLogFair == SpecLog /\ \A c \in Conns : WF_vars(GraceTimer(c))

\* a room that is only joined and drawn in: no undo, no clear, no departure
NextAppend ==
  \/ \E c \in Conns : Connect(c)
  \/ \E c \in Conns : JoinRoom(c, "default")
  \/ \E c \in Conns : Draw(c)
  \/ \E c \in Conns : Deliver(c)

SpecAppend == Init /\ [][NextAppend]_vars

\* one room whose members' requests spend time in flight: joins, draws and undos
\* are emitted by the clients and handled by the server later, in channel order
NextRace ==
  \/ \E c \in Conns : Connect(c)
  \/ \E c \in Conns : joinRoom(c, "default")
  \/ \E c \in Conns : sendDrawing(c)
  \/ \E c \in Conns : sendUndo(c)
  \/ \E c \in Conns : Handle(c, RaceLen, RaceInbox)
  \/ \E c \in Conns : Deliver(c)

SpecRace == Init /\ [][NextRace]_vars

\* the room store: connections join either room, switch between them, draw and
\* leave, and emptied rooms are reclaimed by the grace timers and the sweep
NextRooms ==
  \/ \E c \in Conns : Connect(c)
  \/ \E c \in Conns, roomId \in JoinTargets : JoinRoom(c, roomId)
  \/ \E c \in Conns : Draw(c)
  \/ \E c \in Conns : Disconnect(c)
  \/ \E c \in Conns : GraceTimer(c)
  \/ Sweep
  \/ \E c \in Conns : Deliver(c)

SpecRooms == Init /\ [][NextRooms]_vars

\* the data path of two rooms side by side: one connection joins "default", the
\* other "r2", each of them once, and both draw, undo and clear; nobody leaves,
\* nothing is reclaimed
NextIsolation ==
  \/ \E c \in Conns : Connect(c)
  \/ sock["c1"].currentRoom = NoRoom /\ JoinRoom("c1", "default")
  \/ sock["c2"].currentRoom = NoRoom /\ JoinRoom("c2", "r2")
  \/ \E c \in Conns : Draw(c)
  \/ \E c \in Conns : Undo(c)
  \/ \E c \in Conns : ClearCanvas(c)
  \/ \E c \in Conns : Deliver(c)

SpecIsolation == Init /\ [][NextIsolation]_vars

\* one room whose connections send every kind of event, before joining as well
NextCursor ==
  \/ \E c \in Conns : Connect(c)
  \/ \E c \in Conns : JoinRoom(c, "default")
  \/ \E c \in Conns : Draw(c)
  \/ \E c \in Conns : Undo(c)
  \/ \E c \in Conns : ClearCanvas(c)
  \/ \E c \in Conns : CursorMove(c)
  \/ \E c \in Conns : Deliver(c)

SpecCursor == Init /\ [][NextCursor]_vars

\* one room and everything that touches its DrawingState or passes it by: joins,
\* draws, undos, clears, cursor moves and departures; nothing is reclaimed
NextCounter ==
  \/ \E c \in Conns : Connect(c)
  \/ \E c \in Conns : JoinRoom(c, "default")
  \/ \E c \in Conns : Draw(c)
  \/ \E c \in Conns : Undo(c)
  \/ \E c \in Conns : ClearCanvas(c)
  \/ \E c \in Conns : CursorMove(c)
  \/ \E c \in Conns : Disconnect(c)
  \/ \E c \in Conns : Deliver(c)

SpecCounter == Init /\ [][NextCounter]_vars

\* the membership of two rooms: connections join, switch rooms and leave, the
\* emptied rooms are reclaimed, and connections ask for an undo and for a clear
\* (the logs are empty)
NextMembers ==
  \/ \E c \in Conns : Connect(c)
  \/ \E c \in Conns, roomId \in RoomIds : JoinRoomWithin(c, roomId, MemberJoins)
  \/ \E c \in Conns : Undo(c)
  \/ \E c \in Conns : ClearCanvas(c)
  \/ \E c \in Conns : Disconnect(c)
  \/ \E c \in Conns : GraceTimer(c)
  \/ Sweep
  \/ \E c \in Conns : Deliver(c)

SpecMembers == Init /\ [][NextMembers]_vars

\* SpecMembers where the setInterval callback keeps running; nothing is assumed
\* of the clients, nor of the grace timers
SpecMembersFair == SpecMembers /\ WF_vars(Sweep)

\* the palette: connections join and re-join the two rooms, nothing else
NextColors ==
  \/ \E c \in Conns : Connect(c)
  \/ \E c \in Conns, roomId \in RoomIds : JoinRoomWithin(c, roomId, ColorJoins)
  \/ \E c \in Conns : Deliver(c)

SpecColors == Init /\ [][NextColors]_vars

\* one room whose members send numbered strokes, two of them in flight at most,
\* which the server handles in channel order; each connection asks to join
\* once; no undo, no clear, nobody leaves
NextOrder ==
  \/ \E c \in Conns : Connect(c)
  \/ \E c \in Conns :
       /\ sock[c].currentRoom = NoRoom
       /\ \A i \in 1..Len(toServer[c]) : toServer[c][i].type # "join-room"
       /\ joinRoom(c, "default")
  \/ \E c \in Conns : sendStroke(c)
  \/ \E c \in Conns : Handle(c, MaxId, RaceInbox)
  \/ \E c \in Conns : Deliver(c)

SpecOrder == Init /\ [][NextOrder]_vars

\* ----------------------------------------------------------------- claims
Ops(r) == rooms[r].operations

Ids(ops) == [i \in 1..Len(ops) |-> ops[i].id]

GapFree(ops) == \A i \in 1..Len(ops) : ops[i].id = i - 1

\* the step is the draw, undo or clear-canvas handler acting on room r
Ran(ev, r) == last'.ev = ev /\ last'.room = r

\* C1 as stated: in every reachable state the ids of a room's log are, in log
\* order, exactly 0, 1, ..., len-1.
C1_GapFreeIds == \A r \in DOMAIN rooms : GapFree(Ops(r))

\* C1 amended: the ids of a room's log ascend in log order and stay below the
\* room's counter; they are exactly 0..len-1 as long as no undo has popped an
\* operation since the last clear or the room's creation.
C1_AscendingIdsGapFreeUntilUndo ==
  \A r \in DOMAIN rooms :
    /\ \A i \in 1..Len(Ops(r)) - 1 : Ops(r)[i].id < Ops(r)[i + 1].id
    /\ \A i \in 1..Len(Ops(r)) : Ops(r)[i].id \in 0..rooms[r].currentOperationId - 1
    /\ ~hist[r].undone => GapFree(Ops(r))

\* C1 witness: a log that an undo followed by a draw has left with a gap
C1_Witness ==
  \E r \in DOMAIN rooms : hist[r].undone /\ Len(Ops(r)) >= 2 /\ ~GapFree(Ops(r))

\* C2 as stated: undo() on a log of length n > 0 returns the operation with id
\* n-1 and leaves a log of length n-1; on an empty log it returns null and
\* leaves the log empty.
C2_UndoReturnsIdLenMinus1 ==
  [][\A r \in DOMAIN rooms :
       Ran("undo", r) =>
         IF Len(Ops(r)) > 0
         THEN /\ last'.ret # Null
              /\ last'.ret[1].id = Len(Ops(r)) - 1
              /\ Len(rooms'[r].operations) = Len(Ops(r)) - 1
         ELSE last'.ret = Null /\ rooms'[r].operations = <<>>]_vars

\* C2 amended: undo() on a log of length n > 0 returns the last operation of the
\* log and leaves a log of length n-1; the returned id is n-1 when no operation
\* has been undone since the last clear, and at least n-1 otherwise; on an empty
\* log it returns null and leaves the log empty.
C2_UndoReturnsLast ==
  [][\A r \in DOMAIN rooms :
       Ran("undo", r) =>
         IF Len(Ops(r)) > 0
         THEN /\ last'.ret = <<Ops(r)[Len(Ops(r))]>>
              /\ last'.ret[1].id >= Len(Ops(r)) - 1
              /\ ~hist[r].undone => last'.ret[1].id = Len(Ops(r)) - 1
              /\ Len(rooms'[r].operations) = Len(Ops(r)) - 1
         ELSE last'.ret = Null /\ rooms'[r].operations = <<>>]_vars

\* C2 witness: an undo has returned an operation whose id is above the length
\* of the log it leaves
C2_Witness ==
  /\ last.ev = "undo"
  /\ last.ret # Null
  /\ last.ret[1].id > Len(Ops(last.room))

\* C3 as stated: from a room's creation to its removal, addOperation never
\* returns an id it has returned before.
C3_IdNeverReturnedAgain ==
  [][\A r \in DOMAIN rooms :
       Ran("draw", r) => last'.ret[1].id \notin hist[r].issued]_vars

\* C3 amended: between two clears of a room (or its creation and its first
\* clear) addOperation never returns an id it has returned before, whatever
\* undo requests come in between (clear() resets the counter, so ids are handed
\* out again after it).
C3_IdNotReusedUntilClear ==
  [][\A r \in DOMAIN rooms :
       Ran("draw", r) => last'.ret[1].id \notin hist[r].sinceClear]_vars

\* C3 witness: an id handed out after an undo, in a room that has been cleared
\* before (its earlier ids are a strict superset of those since the clear)
C3_Witness ==
  /\ last.ev = "draw"
  /\ last.room \in DOMAIN hist
  /\ hist[last.room].undone
  /\ hist[last.room].sinceClear # hist[last.room].issued

\* C4: no two operations of a room's log have the same id, and the ids
\* increase strictly in log order, under every interleaving of the draw, undo
\* and clear-canvas events of the connections.
C4_DistinctIncreasingIds ==
  \A r \in DOMAIN rooms :
    \A i, j \in 1..Len(Ops(r)) : i < j => Ops(r)[i].id < Ops(r)[j].id

\* C4 witness: a log holding operations of two connections, after an undo
C4_Witness ==
  \E r \in DOMAIN rooms :
    /\ hist[r].undone
    /\ \E i, j \in 1..Len(Ops(r)) : Ops(r)[i].userId # Ops(r)[j].userId

\* C5: n addOperation calls on a newly created room, with no undo or clear in
\* between, return the ids 0, 1, ..., n-1 in call order (checked under
\* SpecAppend, where rooms are only joined and drawn in).
C5_SequentialIds ==
  \A r \in DOMAIN rooms :
    /\ Ids(Ops(r)) = [i \in 1..Len(Ops(r)) |-> i - 1]
    /\ rooms[r].currentOperationId = Len(Ops(r))
    /\ (last.ev = "draw" /\ last.room = r) =>
         /\ Len(Ops(r)) > 0
         /\ last.ret = <<Ops(r)[Len(Ops(r))]>>

\* C5 witness: the third call in a row has returned
C5_Witness == last.ev = "draw" /\ last.ret # Null /\ last.ret[1].id = 2

\* C6: after clear(), the next addOperation on the room returns id 0, whatever
\* came before the clear.
C6_ClearThenAppendIsZero ==
  [][\A r \in DOMAIN rooms :
       (Ran("draw", r) /\ hist[r].cleared) => last'.ret[1].id = 0]_vars

\* C6 witness: id 0 returned in a room that had handed out higher ids before
\* its clear, some of them undone
C6_Witness ==
  /\ last.ev = "draw"
  /\ last.ret # Null
  /\ last.ret[1].id = 0
  /\ Cardinality(hist[last.room].issued) > 1
  /\ hist[last.room].sinceClear = {0}

\* C7: an undo request removes exactly the operation with the highest id of the
\* room's log, whoever authored it, and leaves every other operation unchanged
\* and in the same order.
C7_UndoRemovesHighestId ==
  [][\A r \in DOMAIN rooms :
       (Ran("undo", r) /\ Len(Ops(r)) > 0) =>
         /\ last'.ret # Null
         /\ \E i \in 1..Len(Ops(r)) : Ops(r)[i] = last'.ret[1]
         /\ \A i \in 1..Len(Ops(r)) : Ops(r)[i].id <= last'.ret[1].id
         /\ rooms'[r].operations = SelectSeq(Ops(r), LAMBDA o : o # last'.ret[1])
         /\ Len(rooms'[r].operations) = Len(Ops(r)) - 1]_vars

\* C7 witness: a connection has undone an operation another connection drew,
\* and an operation stays in the log
C7_Witness ==
  /\ last.ev = "undo"
  /\ last.ret # Null
  /\ last.ret[1].userId # last.conn
  /\ Len(Ops(last.room)) > 0

\* no request and no event is in flight
Quiescent == \A c \in Conns : toClient[c] = <<>> /\ toServer[c] = <<>>

\* the connections registered in room r
Members(r) == {rooms[r].users[i].userId : i \in 1..Len(rooms[r].users)}

\* C8: once every sent message has been delivered, CanvasManager.operations of
\* every member of a room holds the same operations in the same order as the
\* server's log of the room, the members that drew themselves included.
C8_ClientListEqualsServerLog ==
  Quiescent =>
    \A r \in DOMAIN rooms : \A c \in Members(r) : canvas[c].operations = Ops(r)

\* client c receives the event at the head of its channel in this step
Gets(c, type) ==
  /\ last'.ev = "receive"
  /\ toClient[c] # <<>>
  /\ Head(toClient[c]).type = type
  /\ toClient'[c] = Tail(toClient[c])

\* C9: every client that receives an undo event {operationId}, the requester
\* included, removes from its local list the operation whose id is operationId.
C9_ClientRemovesUndoneOperation ==
  [][\A c \in Conns :
       Gets(c, "undo") =>
         LET ops == canvas[c].operations
             id == Head(toClient[c]).operationId
         IN /\ \E i \in 1..Len(ops) : ops[i].id = id
            /\ canvas'[c].operations = SelectSeq(ops, LAMBDA o : o.id # id)]_vars

\* C10: two members have one undo request each in flight while the log holds
\* [Op1, Op2, Op3, Op4]; the server has just handled the first, which removed
\* Op4; handling the second removes no further operation, and the log stays
\* [Op1, Op2, Op3].
C10_SecondUndoIsDuplicate ==
  [][\A c \in Conns :
       LET r == sock[c].currentRoom IN
       (/\ last'.ev = "undo" /\ last'.conn = c /\ last'.room = r
        /\ last.ev = "undo" /\ last.conn # c /\ last.room = r
        /\ last.ret # Null
        /\ last.ret[1].id = RaceLen - 1
        /\ Len(Ops(r)) = RaceLen - 1)
       => rooms'[r].operations = Ops(r)]_vars

\* the rooms whose users map has an entry for connection c
RoomsOf(c) == {r \in DOMAIN rooms : c \in Members(r)}

\* C11: a connection id is in the users map of at most one room, and that room
\* is the one the connection is bound to; a join-room for room B from a
\* connection bound to another room A leaves it a member of B and not of A.
C11_AtMostOneMembership ==
  /\ \A c \in Conns : RoomsOf(c) \subseteq {sock[c].currentRoom}
  /\ \A c \in Conns :
       (last.ev = "join-room" /\ last.conn = c) => RoomsOf(c) = {last.room}

\* C11 witness: a connection has switched rooms, and the room it left, where
\* it had drawn, is still in the store
C11_Witness ==
  /\ last.ev = "join-room"
  /\ \E r \in DOMAIN rooms :
       /\ r # last.room
       /\ \E i \in 1..Len(Ops(r)) : Ops(r)[i].userId = last.conn

\* C12: whatever join-room, disconnect, grace timer or sweep comes next, a room
\* with at least one member stays in the room store, and a grace timer or a
\* sweep leaves its log and its membership as they are.
C12_OccupiedRoomIsKept ==
  [][\A r \in DOMAIN rooms :
       Members(r) # {} =>
         /\ r \in DOMAIN rooms'
         /\ last'.ev \in {"removeRoom", "cleanupEmptyRooms"} => rooms'[r] = rooms[r]]_vars

\* C12 witness: the grace timer of a member that left has fired on a room that
\* another connection had joined in the meantime; the room and its log are there
C12_Witness ==
  /\ last.ev = "removeRoom"
  /\ ~last.ret[1].removed
  /\ last.room \in DOMAIN rooms
  /\ Members(last.room) # {}
  /\ Ops(last.room) # <<>>

\* the connections whose grace timer is pending on room r, which they left as
\* its last member, nobody having joined r since
LastLeavers(r) ==
  {d \in timers : sock[d].currentRoom = r /\ sock[d].left # Null}

\* the init-state this step sends to connection c
InitStateTo(c) == toClient'[c][Len(toClient[c]) + 1]

\* C13: a connection joins room r while the grace timer of r's last member is
\* still pending; the init-state it is sent holds every operation that was in
\* r's log when that member disconnected.
C13_LogSurvivesGracePeriod ==
  [][\A c \in Conns, r \in RoomIds :
       (last'.ev = "join-room" /\ last'.conn = c /\ last'.room = r) =>
         \A d \in LastLeavers(r) :
           \A i \in 1..Len(sock[d].left[1]) :
             \E j \in 1..Len(InitStateTo(c).operations) :
               InitStateTo(c).operations[j] = sock[d].left[1][i]]_vars

\* C14: when the last member of a room has disconnected, the room is eventually
\* absent from the store unless a connection joins it; and a room that enters
\* the store again starts from an empty log and counter 0, the old log being
\* discarded with the room.
C14_EmptyRoomEventuallyRemoved ==
  /\ \A r \in RoomIds :
       (last.ev = "disconnect" /\ last.room = r /\ r \in DOMAIN rooms /\ Members(r) = {})
         ~> (r \notin DOMAIN rooms \/ Members(r) # {})
  /\ [][\A r \in RoomIds :
          (r \notin DOMAIN rooms /\ r \in DOMAIN rooms') =>
            rooms'[r].operations = <<>> /\ rooms'[r].currentOperationId = 0]_vars

\* C14 witness: the grace timer of the last member has removed the room, whose
\* log held operations when that member left
C14_Witness ==
  /\ last.ev = "removeRoom"
  /\ last.ret[1].removed
  /\ last.room \notin DOMAIN rooms
  /\ sock[last.conn].left # Null
  /\ sock[last.conn].left[1] # <<>>

\* C15: removeRoom(roomId) deletes the room and returns true exactly when the
\* room exists and has no member, leaving every other room as it is; otherwise
\* it returns false and leaves the store, every log and every membership
\* unchanged.
C15_RemoveRoomOnlyWhenEmpty ==
  [][last'.ev = "removeRoom" =>
       LET r == last'.room IN
       IF r \in DOMAIN rooms /\ Members(r) = {}
       THEN /\ last'.ret[1].removed
            /\ DOMAIN rooms' = DOMAIN rooms \ {r}
            /\ \A k \in DOMAIN rooms' : rooms'[k] = rooms[k]
       ELSE /\ ~last'.ret[1].removed
            /\ rooms' = rooms]_vars

\* C15 witness: removeRoom has deleted an empty room while another room, with a
\* member and a log, stays in the store
C15_Witness ==
  /\ last.ev = "removeRoom"
  /\ last.ret[1].removed
  /\ \E k \in DOMAIN rooms : Members(k) # {} /\ Ops(k) # <<>>

\* the events this step sends to connection d, in the order they are sent
SentTo(d) == SubSeq(toClient'[d], Len(toClient[d]) + 1, Len(toClient'[d]))

\* the connections registered in room r once this step is taken
MembersAfter(r) == {rooms'[r].users[i].userId : i \in 1..Len(rooms'[r].users)}

\* the types of the events of a sequence
Types(q) == [i \in 1..Len(q) |-> q[i].type]

\* C16: of the events a join-room sends to the joiner, init-state is the first
\* and comes before users-update; a member of the joined room gets user-joined
\* before users-update; and no connection ever has a user-joined event naming
\* itself on its way.
C16_InitStateFirst ==
  [][\A c \in Conns :
       /\ (last'.ev = "join-room" /\ last'.conn = c) =>
            /\ Types(SentTo(c)) = <<"init-state", "users-update">>
            /\ \A d \in MembersAfter(last'.room) \ {c} :
                 /\ Len(SentTo(d)) >= 2
                 /\ SubSeq(Types(SentTo(d)), Len(SentTo(d)) - 1, Len(SentTo(d)))
                      = <<"user-joined", "users-update">>
       /\ \A i \in 1..Len(toClient'[c]) :
            toClient'[c][i].type = "user-joined" => toClient'[c][i].userInfo.userId # c]_vars

\* C16 witness: a connection has joined a room that has another member, who
\* has user-joined and users-update on the way
C16_Witness ==
  /\ last.ev = "join-room"
  /\ Types(toClient[last.conn]) = <<"init-state", "users-update">>
  /\ \E d \in Members(last.room) \ {last.conn} :
       Types(toClient[d]) = <<"user-joined", "users-update">>

\* the events of type t among those this step sends to connection d
SentOfType(d, t) == SelectSeq(SentTo(d), LAMBDA m : m.type = t)

\* C17: the init-state of a join carries the room's log as it is at the join
\* (ascending ids; empty for a room the join creates) and the room's members
\* with the joiner among them; every other member is sent one user-joined for
\* the joiner, and every member, the joiner included, one users-update with
\* that same member list.
C17_InitStateCarriesLogAndMembers ==
  [][\A c \in Conns :
       (last'.ev = "join-room" /\ last'.conn = c) =>
         LET r == last'.room
             init == SentTo(c)[1]
             log == IF r \in DOMAIN rooms THEN Ops(r) ELSE <<>>
             users == rooms'[r].users
         IN /\ init.type = "init-state"
            /\ init.operations = log
            /\ rooms'[r].operations = log
            /\ \A i, j \in 1..Len(log) : i < j => log[i].id < log[j].id
            /\ init.users = users
            /\ c \in MembersAfter(r)
            /\ \A d \in Conns :
                 /\ SentOfType(d, "user-joined") =
                      IF d \in MembersAfter(r) \ {c}
                      THEN <<[type |-> "user-joined", userInfo |-> init.userInfo]>>
                      ELSE <<>>
                 /\ SentOfType(d, "users-update") =
                      IF d \in MembersAfter(r)
                      THEN <<[type |-> "users-update", users |-> users]>>
                      ELSE <<>>
            /\ init.userInfo.userId = c]_vars

\* C17 witness: a connection has joined a room that has a log and another
\* member; its init-state, still on the way, carries that log and both members
C17_Witness ==
  /\ last.ev = "join-room"
  /\ Ops(last.room) # <<>>
  /\ toClient[last.conn] # <<>>
  /\ Head(toClient[last.conn]).type = "init-state"
  /\ Head(toClient[last.conn]).operations = Ops(last.room)
  /\ Len(Head(toClient[last.conn]).users) = 2

\* C18: a draw accepted from connection c in room r sends one draw event,
\* carrying the operation as addOperation returned it (id included), to every
\* other member of r and nothing to anyone else; no connection ever has a draw
\* event of its own operation on its way.
C18_DrawReachesOthersOnly ==
  [][\A d \in Conns :
       /\ (last'.ev = "draw" /\ last'.room # NoRoom) =>
            LET r == last'.room
                c == last'.conn
                op == last'.ret[1]
            IN /\ op = Last(rooms'[r].operations)
               /\ op.userId = c
               /\ SentTo(d) = IF d \in Members(r) \ {c}
                              THEN <<[type |-> "draw", operation |-> op]>>
                              ELSE <<>>
       /\ \A i \in 1..Len(toClient'[d]) :
            toClient'[d][i].type = "draw" => toClient'[d][i].operation.userId # d]_vars

\* C18 witness: a member has drawn its second stroke; the other member has the
\* draw event with id 1 on the way, the author nothing
C18_Witness ==
  /\ last.ev = "draw"
  /\ last.ret # Null
  /\ last.ret[1].id = 1
  /\ toClient[last.conn] = <<>>
  /\ \E d \in Members(last.room) \ {last.conn} :
       toClient[d] = <<[type |-> "draw", operation |-> last.ret[1]]>>

\* C19: an undo request that removes an operation from room r's log sends one
\* undo event, whose operationId is the id of the removed operation, to every
\* member of r, the requester included, and to nobody else; the log is one
\* operation shorter.
C19_UndoReachesEveryMember ==
  [][\A r \in DOMAIN rooms :
       (Ran("undo", r) /\ Len(Ops(r)) > 0) =>
         LET removed == Ops(r)[Len(Ops(r))] IN
         /\ rooms'[r].operations = Front(Ops(r))
         /\ last'.conn \in Members(r)
         /\ \A d \in Conns :
              SentTo(d) = IF d \in Members(r)
                          THEN <<[type |-> "undo", operationId |-> removed.id]>>
                          ELSE <<>>]_vars

\* C19 witness: with two members in the room, an undo of an operation whose id
\* is above 0 has put one undo event on the way to each of them
C19_Witness ==
  /\ last.ev = "undo"
  /\ last.ret # Null
  /\ last.ret[1].id > 0
  /\ Cardinality(Members(last.room)) = 2
  /\ \A d \in Members(last.room) :
       toClient[d] = <<[type |-> "undo", operationId |-> last.ret[1].id]>>

\* C20: a clear-canvas request from a member of room r empties r's log, resets
\* r's counter to 0, leaves r's members as they are and sends one clear-canvas
\* event to every member of r, the sender included, and to nobody else.
C20_ClearReachesEveryMember ==
  [][\A r \in DOMAIN rooms :
       Ran("clear-canvas", r) =>
         /\ rooms'[r].operations = <<>>
         /\ rooms'[r].currentOperationId = 0
         /\ rooms'[r].users = rooms[r].users
         /\ last'.conn \in Members(r)
         /\ \A d \in Conns :
              SentTo(d) = IF d \in Members(r) THEN <<[type |-> "clear-canvas"]>> ELSE <<>>]_vars

\* C20 witness: a clear-canvas has emptied a log that held operations, in a
\* room of two members who both have the event on the way
C20_Witness ==
  /\ last.ev = "clear-canvas"
  /\ last.room \in DOMAIN rooms
  /\ hist[last.room].issued # {}
  /\ Ops(last.room) = <<>>
  /\ Cardinality(Members(last.room)) = 2
  /\ \A d \in Members(last.room) : toClient[d] = <<[type |-> "clear-canvas"]>>

\* C21: when a connection bound to room r disconnects and r has other members,
\* it leaves r's users map, each remaining member is sent user-left for it and
\* then users-update with exactly the remaining members, nobody else is sent
\* anything, and r stays in the store with its log and counter.
C21_DisconnectKeepsOccupiedRoom ==
  [][\A c \in Conns, r \in DOMAIN rooms :
       (/\ last'.ev = "disconnect" /\ last'.conn = c /\ last'.room = r
        /\ Members(r) \ {c} # {}) =>
         /\ c \in Members(r)
         /\ r \in DOMAIN rooms'
         /\ MembersAfter(r) = Members(r) \ {c}
         /\ rooms'[r].users = SelectSeq(rooms[r].users, LAMBDA u : u.userId # c)
         /\ rooms'[r].operations = Ops(r)
         /\ rooms'[r].currentOperationId = rooms[r].currentOperationId
         /\ \A d \in Conns \ {c} :
              SentTo(d) = IF d \in Members(r)
                          THEN <<[type |-> "user-left", userId |-> c],
                                 [type |-> "users-update", users |-> rooms'[r].users]>>
                          ELSE <<>>]_vars

\* C21 witness: one of the two members of a room with a log has disconnected;
\* the other is still registered and has user-left and users-update on the way
C21_Witness ==
  /\ last.ev = "disconnect"
  /\ last.room \in DOMAIN rooms
  /\ Ops(last.room) # <<>>
  /\ \E d \in Members(last.room) :
       /\ d # last.conn
       /\ Types(toClient[d]) = <<"user-left", "users-update">>
       /\ toClient[d][1].userId = last.conn

\* C22: a draw, undo, clear-canvas or cursor-move event of a connection that has
\* joined no room changes nothing on the server: the store, every log, counter
\* and users map, the socket.io rooms and every connection's channel stay as
\* they are.
C22_UnboundEventIgnored ==
  [][\A c \in Conns :
       (/\ last'.conn = c
        /\ last'.ev \in {"draw", "undo", "clear-canvas", "cursor-move"}
        /\ sock[c].currentRoom = NoRoom) =>
         /\ rooms' = rooms
         /\ adapter' = adapter
         /\ toClient' = toClient
         /\ sock' = sock
         /\ colorIndex' = colorIndex]_vars

\* C22 witness: a connection that has joined no room has sent an undo while
\* the room of the other connection holds operations, which are still there
C22_Witness ==
  /\ last.ev = "undo"
  /\ last.conn \in Conns
  /\ sock[last.conn].currentRoom = NoRoom
  /\ \E r \in DOMAIN rooms : Len(Ops(r)) >= 2 /\ Members(r) # {}

\* C23: a draw, undo or clear-canvas of a connection bound to room A leaves the
\* log, the counter and the users map of every other room as they are, creates
\* and removes no room, and sends events to members of A only.
C23_RoomsAreIsolated ==
  [][\A A \in DOMAIN rooms :
       (last'.room = A /\ last'.ev \in {"draw", "undo", "clear-canvas"}) =>
         /\ DOMAIN rooms' = DOMAIN rooms
         /\ \A B \in DOMAIN rooms \ {A} : rooms'[B] = rooms[B]
         /\ rooms'[A].users = rooms[A].users
         /\ \A d \in Conns \ Members(A) : SentTo(d) = <<>>]_vars

\* C23 witness: an undo in one room has removed an operation and sent its event
\* to the requester, while the other room has a member, who is sent nothing,
\* and a log
C23_Witness ==
  /\ last.ev = "undo"
  /\ last.ret # Null
  /\ toClient[last.conn] # <<>>
  /\ \E B \in DOMAIN rooms \ {last.room} :
       /\ Ops(B) # <<>>
       /\ Members(B) # {}
       /\ \A d \in Members(B) : toClient[d] = <<>>

\* C24: a cursor-move event leaves the store, every log, counter and users map
\* as they are; it is sent to the other members of the sender's room and to
\* nobody else, the sender least of all; and the operations of every init-state
\* are operations addOperation made (an id and an author), never a cursor
\* position.
C24_CursorMoveIsTransient ==
  [][\A c \in Conns :
       /\ (last'.ev = "cursor-move" /\ last'.conn = c /\ last'.room # NoRoom) =>
            /\ rooms' = rooms
            /\ colorIndex' = colorIndex
            /\ \A d \in Conns :
                 SentTo(d) = IF d \in Members(last'.room) \ {c}
                             THEN <<[type |-> "cursor-move", userId |-> c]>>
                             ELSE <<>>
       /\ \A i \in 1..Len(toClient'[c]) :
            toClient'[c][i].type = "init-state" =>
              \A j \in 1..Len(toClient'[c][i].operations) :
                /\ DOMAIN toClient'[c][i].operations[j] = {"id", "userId", "data"}
                /\ toClient'[c][i].operations[j].userId \in Conns]_vars

\* C24 witness: a member of a room with a log has moved its cursor; the event
\* is on the way to the other member, and nothing to the sender
C24_Witness ==
  /\ last.ev = "cursor-move"
  /\ last.room \in DOMAIN rooms
  /\ Ops(last.room) # <<>>
  /\ toClient[last.conn] = <<>>
  /\ \E d \in Members(last.room) \ {last.conn} :
       toClient[d] = <<[type |-> "cursor-move", userId |-> last.conn]>>

\* C25: two distinct members of a room never have the same colour.
C25_MembersHaveDistinctColors ==
  \A r \in DOMAIN rooms :
    \A i, j \in 1..Len(rooms[r].users) :
      i # j => rooms[r].users[i].color # rooms[r].users[j].color

\* the users map entry of connection c in room r once this step is taken
EntryAfter(r, c) ==
  CHOOSE u \in {rooms'[r].users[i] : i \in 1..Len(rooms'[r].users)} : u.userId = c

\* C26: colorIndex starts at 0 and counts the join-room events processed, of
\* all rooms and connections; the k-th of them (k from 0) registers the joiner
\* with palette entry k mod 12 and sends it that entry in init-state.
C26_RoundRobinPalette ==
  /\ colorIndex = 0
  /\ [][IF last'.ev = "join-room"
         THEN /\ colorIndex' = colorIndex + 1
              /\ EntryAfter(last'.room, last'.conn).color = colorIndex % NumColors
              /\ InitStateTo(last'.conn).userInfo.color = colorIndex % NumColors
         ELSE colorIndex' = colorIndex]_vars

\* C26 witness: the thirteenth join-room has given the first palette entry again,
\* in the other room than the first join used
C26_Witness ==
  /\ last.ev = "join-room"
  /\ colorIndex = NumColors + 1
  /\ \E i \in 1..Len(rooms[last.room].users) :
       rooms[last.room].users[i].userId = last.conn /\ rooms[last.room].users[i].color = 0

RECURSIVE Replay(_, _)
\* the canvas of a client once it has received the events of q, in order
Replay(cv, q) == IF q = <<>> THEN cv ELSE Replay(OnEvent(cv, Head(q)), Tail(q))

\* what client d holds after each of the events on their way to it
Views(d) ==
  {Replay(canvas[d], SubSeq(toClient[d], 1, k)).operations : k \in 0..Len(toClient[d])}

\* the operations of connection c in a sequence of operations
By(c, ops) == SelectSeq(ops, LAMBDA o : o.userId = c)

\* C27: the strokes of one connection are in the room's log in the order the
\* connection sent them (stroke numbers and ids both ascending), and they
\* reach every other client in that order.
C27_PerConnectionOrder ==
  \A c \in Conns :
    /\ \A r \in DOMAIN rooms :
         \A i, j \in 1..Len(By(c, Ops(r))) :
           i < j => /\ By(c, Ops(r))[i].data < By(c, Ops(r))[j].data
                    /\ By(c, Ops(r))[i].id < By(c, Ops(r))[j].id
    /\ \A d \in Conns \ {c} : \A v \in Views(d) :
         \A i, j \in 1..Len(By(c, v)) : i < j => By(c, v)[i].data < By(c, v)[j].data

\* C27 witness: the log holds two strokes of one connection and one of the
\* other member, who has received both
C27_Witness ==
  \E c, d \in Conns, r \in DOMAIN rooms :
    /\ c # d
    /\ Len(By(c, Ops(r))) >= 2
    /\ Len(By(c, canvas[d].operations)) >= 2
    /\ Len(By(d, Ops(r))) >= 1

\* C28: every client receives the operations of a room in the order the server
\* appended them: whatever it holds, now and after each event on its way, is
\* in ascending id order.
C28_ClientsSeeServerOrder ==
  \A d \in Conns : \A v \in Views(d) :
    \A i, j \in 1..Len(v) : i < j => v[i].id < v[j].id

\* C28 witness: two draw events are on their way to a client that holds
\* operations already
C28_Witness ==
  \E d \in Conns :
    /\ Len(toClient[d]) = 2
    /\ toClient[d][1].type = "draw"
    /\ toClient[d][2].type = "draw"
    /\ canvas[d].operations # <<>>

\* C29: a join-room for room r from a connection already bound to r leaves r
\* with exactly one users entry for the connection and as many members as
\* before; r is the same room (its history goes on: neither deleted nor
\* created anew), with its log and counter unchanged.
C29_DuplicateJoinIsUpsert ==
  [][\A c \in Conns, r \in DOMAIN rooms :
       (/\ last'.ev = "join-room" /\ last'.conn = c /\ last'.room = r
        /\ sock[c].currentRoom = r) =>
         /\ Len(SelectSeq(rooms'[r].users, LAMBDA u : u.userId = c)) = 1
         /\ Len(rooms'[r].users) = Len(rooms[r].users)
         /\ MembersAfter(r) = Members(r)
         /\ DOMAIN rooms' = DOMAIN rooms
         /\ hist'[r] = hist[r]
         /\ rooms'[r].operations = Ops(r)
         /\ rooms'[r].currentOperationId = rooms[r].currentOperationId]_vars

\* C29 witness: the only member of a room has joined it a second time, after
\* it drew in it; its entry carries the colour of the second join
C29_Witness ==
  /\ last.ev = "join-room"
  /\ colorIndex = 2
  /\ Ops(last.room) # <<>>
  /\ hist[last.room].issued # {}
  /\ rooms[last.room].users = <<[userId |-> last.conn, color |-> 1]>>
  /\ \A i \in 1..Len(Ops(last.room)) : Ops(last.room)[i].userId = last.conn

\* C30: getOrCreateRoom(roomId) on a key of the store gives the store back as
\* it is, and on an absent key adds one room with an empty log, counter 0 and
\* no member, leaving the other rooms alone; the join-room that calls it finds
\* the log and counter of an existing room as they were.
C30_GetOrCreateRoom ==
  /\ rooms = [k \in {} |-> DrawingState]
  /\ [][/\ \A roomId \in RoomIds :
            LET rs == getOrCreateRoom(rooms, roomId) IN
            IF roomId \in DOMAIN rooms
            THEN rs = rooms
            ELSE /\ DOMAIN rs = DOMAIN rooms \cup {roomId}
                 /\ rs[roomId].operations = <<>>
                 /\ rs[roomId].currentOperationId = 0
                 /\ rs[roomId].users = <<>>
                 /\ \A k \in DOMAIN rooms : rs[k] = rooms[k]
        /\ last'.ev = "join-room" =>
            LET r == last'.room IN
            IF r \in DOMAIN rooms
            THEN /\ rooms'[r].operations = Ops(r)
                 /\ rooms'[r].currentOperationId = rooms[r].currentOperationId
                 /\ MembersAfter(r) = Members(r) \cup {last'.conn}
            ELSE /\ rooms'[r].operations = <<>>
                 /\ rooms'[r].currentOperationId = 0
                 /\ MembersAfter(r) = {last'.conn}]_vars

\* C30 witness: a connection has joined a room that was in the store, empty of
\* members, with the log another connection drew
C30_Witness ==
  /\ last.ev = "join-room"
  /\ Ops(last.room) # <<>>
  /\ \A i \in 1..Len(Ops(last.room)) : Ops(last.room)[i].userId # last.conn
  /\ Members(last.room) = {last.conn}

\* C31: cleanupEmptyRooms removes exactly the rooms whose users map is empty
\* when it is called, leaves every room with a member as it is (log, counter and
\* members), and returns the number of rooms it removed.
C31_SweepRemovesExactlyEmptyRooms ==
  [][last'.ev = "cleanupEmptyRooms" =>
       LET empty == {r \in DOMAIN rooms : Members(r) = {}} IN
       /\ DOMAIN rooms' = DOMAIN rooms \ empty
       /\ \A r \in DOMAIN rooms' : rooms'[r] = rooms[r]
       /\ last'.ret[1].count = Cardinality(empty)]_vars

\* C31 witness: a sweep has removed one room and kept the other, which has a
\* member and a log
C31_Witness ==
  /\ last.ev = "cleanupEmptyRooms"
  /\ last.ret[1].count = 1
  /\ \E r \in DOMAIN rooms : Members(r) # {} /\ Ops(r) # <<>>
  /\ \E c \in Conns : sock[c].status = "closed" /\ sock[c].currentRoom \notin DOMAIN rooms
                         /\ sock[c].currentRoom # NoRoom

\* the log of room r, empty for a room that is not in the store
LogOf(rs, r) == IF has(rs, r) THEN rs[r].operations ELSE <<>>

\* C32: a step changes the log of a room in one of three ways only: the draw
\* handler of the room appends one operation at its end, the undo handler of
\* the room removes its last operation, or the log becomes empty (clear-canvas
\* of the room, or the room leaves the store); the operations that stay keep
\* their content and their order.
C32_LogChangesThreeWays ==
  [][\A r \in RoomIds :
       LET log == LogOf(rooms, r)
           after == LogOf(rooms', r)
       IN \/ after = log
          \/ /\ Ran("draw", r)
             /\ Len(after) = Len(log) + 1
             /\ SubSeq(after, 1, Len(log)) = log
          \/ /\ Ran("undo", r)
             /\ log # <<>>
             /\ after = SubSeq(log, 1, Len(log) - 1)
          \/ /\ after = <<>>
             /\ \/ Ran("clear-canvas", r)
                \/ last'.ev \in {"removeRoom", "cleanupEmptyRooms"} /\ ~has(rooms', r)]_vars

\* C32 witness: an undo has removed the last of several operations, and what
\* is left of the log is still there
C32_Witness ==
  /\ last.ev = "undo"
  /\ last.ret # Null
  /\ Len(Ops(last.room)) >= 2
  /\ \A i \in 1..Len(Ops(last.room)) : Ops(last.room)[i].id < last.ret[1].id

\* C33: the counter of a room that stays in the store goes up by exactly one
\* when the draw handler of the room calls addOperation, goes to 0 when the
\* clear-canvas handler of the room calls clear, and is left as it is by every
\* other step: undo, join-room (addUser), a departure (removeUser), cursor-move.
\* It never decreases otherwise.
C33_CounterMonotonicUntilClear ==
  [][\A r \in DOMAIN rooms \cap DOMAIN rooms' :
       LET n == rooms[r].currentOperationId
           after == rooms'[r].currentOperationId
       IN /\ Ran("draw", r) => after = n + 1
          /\ Ran("clear-canvas", r) => after = 0
          /\ ~(Ran("draw", r) \/ Ran("clear-canvas", r)) => after = n
          /\ after < n => Ran("clear-canvas", r)]_vars

\* C33 witness: a member has left a room where an undo has taken an operation
\* off the log, and the counter is still ahead of the log
C33_Witness ==
  /\ last.ev = "disconnect"
  /\ last.room \in DOMAIN rooms
  /\ Members(last.room) # {}
  /\ hist[last.room].undone
  /\ rooms[last.room].currentOperationId > Len(Ops(last.room))
  /\ Ops(last.room) # <<>>

\* C34: the undo handler of a connection bound to a room whose log is empty
\* changes no log, counter or users map, creates and removes no room, and puts
\* no event on the channel of any connection, the requester's included.
C34_UndoOnEmptyLogIsSilent ==
  [][\A c \in Conns :
       (/\ last'.ev = "undo"
        /\ last'.conn = c
        /\ has(rooms, sock[c].currentRoom)
        /\ Ops(sock[c].currentRoom) = <<>>) =>
         /\ rooms' = rooms
         /\ adapter' = adapter
         /\ last'.ret = Null
         /\ \A d \in Conns : SentTo(d) = <<>>]_vars

\* C34 witness: an undo has found the log of its room empty after earlier
\* undos had emptied it (the counter is past 0), with two members in the room
C34_Witness ==
  /\ last.ev = "undo"
  /\ last.room \in DOMAIN rooms
  /\ last.ret = Null
  /\ Ops(last.room) = <<>>
  /\ rooms[last.room].currentOperationId > 0
  /\ Cardinality(Members(last.room)) = 2
  /\ \A d \in Conns : toClient[d] = <<>>

\* C35: a join-room for room B by a connection bound to another room A puts
\* on the channel of every remaining member of A one user-left event naming
\* that connection and nothing else: neither the user-joined nor the
\* users-update of the join into B.
C35_SwitchNotifiesOldRoomOnly ==
  [][\A c \in Conns :
       LET A == sock[c].currentRoom
           B == last'.room
       IN (last'.ev = "join-room" /\ last'.conn = c /\ A # NoRoom /\ A # B) =>
            /\ has(rooms, A)
            /\ MembersAfter(A) = Members(A) \ {c}
            /\ \A d \in MembersAfter(A) :
                 SentTo(d) = <<[type |-> "user-left", userId |-> c]>>]_vars

\* C35 witness: a connection has switched rooms and the member it left behind
\* has the user-left event, and only that, on its way
C35_Witness ==
  /\ last.ev = "join-room"
  /\ \E A \in DOMAIN rooms \ {last.room} :
       \E d \in Members(A) :
         /\ d # last.conn
         /\ toClient[d] = <<[type |-> "user-left", userId |-> last.conn]>>
  /\ Len(toClient[last.conn]) = 2

\* the connections that this step sends an event of type t
Recipients(t) == {d \in Conns : SentOfType(d, t) # <<>>}

\* C36: in every reachable state the socket.io room of each roomId holds
\* exactly the connections that are keys of that room's users map, all of them
\* live; so the users-update of a join or a departure goes to the members the
\* room has at the send, and user-joined and user-left to those members less
\* the sender.
C36_AdapterEqualsMembership ==
  /\ [](\A r \in RoomIds :
         /\ adapter[r] = IF has(rooms, r) THEN Members(r) ELSE {}
         /\ \A d \in adapter[r] : sock[d].status = "open")
  /\ [][/\ last'.ev = "join-room" =>
            /\ Recipients("users-update") = MembersAfter(last'.room)
            /\ Recipients("user-joined") = MembersAfter(last'.room) \ {last'.conn}
        /\ (last'.ev = "disconnect" /\ last'.room # NoRoom) =>
            /\ Recipients("users-update") = MembersAfter(last'.room)
            /\ Recipients("user-left") = MembersAfter(last'.room) \ {last'.conn}]_vars

\* C36 witness: after a switch both connections are in one socket.io room and
\* in its users map, the room the switcher left is in the store with no socket
\* and no member, and the users-update of the join is on its way to both
C36_Witness ==
  /\ last.ev = "join-room"
  /\ adapter[last.room] = Conns
  /\ Members(last.room) = Conns
  /\ \E A \in DOMAIN rooms \ {last.room} : adapter[A] = {} /\ Members(A) = {}
  /\ \A d \in Conns : toClient[d] # <<>> /\ Last(toClient[d]).type = "users-update"

\* C37: in every reachable state every entry of a room's users map is that of
\* a live connection bound to that room, and every live connection bound to a
\* room r has an entry in the users map of r, which is in the store; so a
\* draw, undo or clear-canvas of a bound connection never returns at the
\* room-not-found guard.
C37_RegistryAgreesWithSessions ==
  /\ [](/\ \A r \in DOMAIN rooms : \A d \in Members(r) :
             sock[d].status = "open" /\ sock[d].currentRoom = r
        /\ \A c \in Conns :
             (sock[c].status = "open" /\ sock[c].currentRoom # NoRoom) =>
               has(rooms, sock[c].currentRoom) /\ c \in Members(sock[c].currentRoom))
  /\ [][\A c \in Conns :
          (/\ last'.ev \in {"draw", "undo", "clear-canvas"}
           /\ last'.conn = c
           /\ sock[c].currentRoom # NoRoom) => last'.room = sock[c].currentRoom]_vars

\* C37 witness: a connection that switched rooms has had its clear-canvas
\* handled in its new room, after the room it left was reclaimed on the
\* departure of the other connection
C37_Witness ==
  /\ last.ev = "clear-canvas"
  /\ last.room \in DOMAIN rooms
  /\ colorIndex = 3
  /\ \E d \in Conns \ {last.conn} :
       /\ sock[d].status = "closed"
       /\ sock[d].currentRoom \notin DOMAIN rooms \cup {NoRoom}

\* C38: once every sent message has been delivered, the member list each
\* member of a room got with its last init-state or users-update (the list its
\* page displays) is the room's current member list.
C38_ClientMemberListIsCurrent ==
  Quiescent =>
    \A r \in DOMAIN rooms : \A d \in Members(r) :
      canvas[d].users = getUsers(rooms[r])

\* C39: a room that is in the store with no member, as after its last member
\* switched to another room (no disconnect, so no grace timer), is eventually
\* removed from the store or joined again, provided the periodic sweep keeps
\* running.
C39_SwitchedOutRoomEventuallySwept ==
  \A r \in RoomIds :
    (has(rooms, r) /\ Members(r) = {}) ~> (~has(rooms, r) \/ Members(r) # {})

\* C39 witness: no connection has disconnected, one has switched rooms, and a
\* sweep has removed the room it left
C39_Witness ==
  /\ last.ev = "cleanupEmptyRooms"
  /\ last.ret[1].count = 1
  /\ timers = {}
  /\ \A c \in Conns : sock[c].status # "closed"
  /\ colorIndex >= 2
  /\ \E r \in DOMAIN rooms : Members(r) # {}

====
